---------------------------- MODULE Spec2Model ----------------------------
(***************************************************************************)
(* Model of roles/iospush/library/config_compliance.py: the extraction of  *)
(* a configuration fragment, its comparison against the rendered template  *)
(* and the result handed to the host.                                      *)
(*                                                                         *)
(* A text line is a sequence of one-character strings, a list of lines a   *)
(* sequence of lines.  Python indices are 0-based, sequences 1-based: the  *)
(* Python element x[i] is x[i + 1] here.  A regular expression is drawn    *)
(* from the literal ones (no metacharacters), so that re.match is "is a    *)
(* prefix" and re.search is "occurs in".  A raised exception is the field  *)
(* raised of an operation's outcome.                                       *)
(***************************************************************************)
EXTENDS Integers, Sequences, FiniteSets, TLC

VARIABLES pc, params, config_lines, template_content, lines, block,
          too_much, missing, module_result, io, hist

vars == <<pc, params, config_lines, template_content, lines, block,
          too_much, missing, module_result, io, hist>>

----------------------------------------------------------------------------
(* Bounds of the checked instances.                                        *)

MaxLines == 2
MaxBlock == 2
MaxTemplate == 2
MaxConfig == 3
MaxExtract == 4
MaxResidue == 2
MaxWord == 3

----------------------------------------------------------------------------
(* Program constants.                                                      *)

COMPARE_ARG_KEEP_START == "keep_block_start"
COMPARE_ARG_KEEP_END == "keep_block_end"
COMPARE_ARG_STRICT == "strict_order"
COMPARE_METHOD_EQUALS == "equals"
SEARCH_MODE_LINE == "line"
SEARCH_MODE_BLOCK == "block"
SEARCH_MODE_BLOCK_LINES == "block_lines"
SEARCH_MODE_GLOBAL == "global"
VALID_COMPARE_ARGS == {COMPARE_ARG_KEEP_START, COMPARE_ARG_KEEP_END, COMPARE_ARG_STRICT}
VALID_SEARCH_MODES == {SEARCH_MODE_LINE, SEARCH_MODE_BLOCK, SEARCH_MODE_BLOCK_LINES,
                       SEARCH_MODE_GLOBAL}
LINE_DELIMITER == <<"@", "!", "!", "@">>
EDIT_DISTANCE_THRESHOLD == 6

----------------------------------------------------------------------------
(* Strings and lists as Python handles them.                               *)

Whitespace == {" ", "\t", "\n"}

RECURSIVE Rep(_, _)
Rep(c, n) == IF n = 0 THEN <<>> ELSE <<c>> \o Rep(c, n - 1)

\* s.startswith(p); also re.compile(p).match(s) for a literal p
StartsWith(s, p) == Len(p) <= Len(s) /\ SubSeq(s, 1, Len(p)) = p

\* s.endswith(p)
EndsWith(s, p) == Len(p) <= Len(s) /\ SubSeq(s, Len(s) - Len(p) + 1, Len(s)) = p

\* re.compile(p).search(s) for a literal p
Search(p, s) == \E k \in 0..(Len(s) - Len(p)) : SubSeq(s, k + 1, k + Len(p)) = p

\* re.compile("^\s").match(s)
WhitespaceStart(s) == Len(s) > 0 /\ s[1] \in Whitespace

\* re.compile("^[^\s]").match(s)
NotWhitespaceStart(s) == Len(s) > 0 /\ s[1] \notin Whitespace

RECURSIVE LStrip(_)
LStrip(s) == IF Len(s) > 0 /\ s[1] \in Whitespace THEN LStrip(Tail(s)) ELSE s

RECURSIVE RStrip(_)
RStrip(s) ==
    IF Len(s) > 0 /\ s[Len(s)] \in Whitespace THEN RStrip(SubSeq(s, 1, Len(s) - 1)) ELSE s

\* s.strip()
Strip(s) == RStrip(LStrip(s))

\* x in list
Contains(list, x) == \E i \in 1..Len(list) : list[i] = x

\* list.index(x) as a 1-based position; the caller has checked Contains
IndexOf(list, x) ==
    CHOOSE i \in 1..Len(list) : list[i] = x /\ \A k \in 1..(i - 1) : list[k] # x

\* del list[i - 1]; the caller has checked the range
DelAt(list, i) == SubSeq(list, 1, i - 1) \o SubSeq(list, i + 1, Len(list))

\* list.remove(x): the first occurrence goes; the caller has checked Contains
ListRemove(list, x) == DelAt(list, IndexOf(list, x))

\* "".join(list)
RECURSIVE Join(_)
Join(list) == IF list = <<>> THEN <<>> ELSE Head(list) \o Join(Tail(list))

\* ord(c) for the characters in use
Ord(c) ==
    CASE c = "\t" -> 9 [] c = " " -> 32 [] c = "!" -> 33 [] c = "@" -> 64
      [] c = "a" -> 97 [] c = "b" -> 98 [] c = "c" -> 99 [] c = "n" -> 110
      [] c = "o" -> 111 [] c = "s" -> 115 [] c = "x" -> 120

\* s < t for Python strings
RECURSIVE StrLess(_, _)
StrLess(s, t) ==
    IF t = <<>> THEN FALSE
    ELSE IF s = <<>> THEN TRUE
    ELSE IF Ord(s[1]) # Ord(t[1]) THEN Ord(s[1]) < Ord(t[1])
    ELSE StrLess(Tail(s), Tail(t))

RECURSIVE InsertSorted(_, _)
InsertSorted(list, x) ==
    IF list = <<>> THEN <<x>>
    ELSE IF StrLess(x, Head(list)) THEN <<x>> \o list
    ELSE <<Head(list)>> \o InsertSorted(Tail(list), x)

\* sorted(list)
RECURSIVE Sorted(_)
Sorted(list) ==
    IF list = <<>> THEN <<>>
    ELSE InsertSorted(Sorted(SubSeq(list, 1, Len(list) - 1)), list[Len(list)])

\* hash(data): a function of the characters, kept injective here (no two
\* different strings of the checked instances collide)
Hash(data) == data

\* re.compile(".*" + LINE_DELIMITER).sub("", s): the text up to and including
\* the last delimiter goes
RemoveDelimiter(s) ==
    LET n == Len(LINE_DELIMITER)
        at == {k \in 0..(Len(s) - n) : SubSeq(s, k + 1, k + n) = LINE_DELIMITER}
    IN IF at = {} THEN s
       ELSE LET last == CHOOSE k \in at : \A m \in at : m <= k
            IN SubSeq(s, last + n + 1, Len(s))

\* "{}{}{}".format(start, LINE_DELIMITER, line)
Tag(start, line) == start \o LINE_DELIMITER \o line

\* all sequences over S of length lo..hi
SeqsOf(S, lo, hi) == UNION {[1..n -> S] : n \in lo..hi}

----------------------------------------------------------------------------
(* The Edit-Distance Gate.                                                 *)

RECURSIVE LevFill(_, _, _, _, _)
LevFill(d, s, t, j, i) ==
    IF j >= Len(t) THEN d
    ELSE IF i >= Len(s) THEN LevFill(d, s, t, j + 1, 1)
    ELSE LET cost == IF s[i + 1] = t[j + 1] THEN 0 ELSE 1
             a == d[i - 1][j] + 1
             b == d[i][j - 1] + 1
             c == d[i - 1][j - 1] + cost
             m == IF a <= b /\ a <= c THEN a ELSE IF b <= c THEN b ELSE c
         IN LevFill([d EXCEPT ![i][j] = m], s, t, j, i + 1)

levenshtein(s, t) ==
    IF s = t THEN 0
    ELSE IF Len(s) = 0 THEN Len(t)
    ELSE IF Len(t) = 0 THEN Len(s)
    ELSE LET d0 == [i \in 0..(Len(s) - 1) |->
                      [j \in 0..(Len(t) - 1) |->
                          IF j = 0 THEN i ELSE IF i = 0 THEN j ELSE 0]]
         IN LevFill(d0, s, t, 1, 1)[Len(s) - 1][Len(t) - 1]

----------------------------------------------------------------------------
(* The Fragment Comparator, line and block_lines modes.  An outcome is     *)
(* [raised, extra, missing]: raised when the call ends in an exception.    *)

Returned(extra_lines, missing_lines) ==
    [raised |-> FALSE, extra |-> extra_lines, missing |-> missing_lines]

Raised == [raised |-> TRUE, extra |-> <<>>, missing |-> <<>>]

\* the loop of the strict checks, at Python index i
RECURSIVE StrictLoop(_, _, _, _, _)
StrictLoop(ls, template_lines, i, remaining_lines, remaining_template_lines) ==
    IF i >= Len(ls) THEN Returned(remaining_lines, remaining_template_lines)
    ELSE LET line == ls[i + 1]
             template_line == template_lines[i + 1]
         IN IF line = template_line
            THEN IF ~Contains(remaining_lines, line)
                    \/ ~Contains(remaining_template_lines, line)
                 THEN Raised
                 ELSE StrictLoop(ls, template_lines, i + 1,
                                 ListRemove(remaining_lines, line),
                                 ListRemove(remaining_template_lines, line))
            ELSE IF levenshtein(line, template_line) > EDIT_DISTANCE_THRESHOLD
                 THEN Returned(ls, template_lines)
                 ELSE StrictLoop(ls, template_lines, i + 1,
                                 remaining_lines, remaining_template_lines)

\* the loop of the normal checks, at Python index i
RECURSIVE NormalLoop(_, _, _, _, _)
NormalLoop(ls, template_lines, i, remaining_lines, remaining_template_lines) ==
    IF i >= Len(ls) THEN Returned(remaining_lines, remaining_template_lines)
    ELSE LET line == ls[i + 1]
         IN IF Contains(template_lines, line)
            THEN IF ~Contains(remaining_lines, line)
                    \/ ~Contains(remaining_template_lines, line)
                 THEN Raised
                 ELSE NormalLoop(ls, template_lines, i + 1,
                                 ListRemove(remaining_lines, line),
                                 ListRemove(remaining_template_lines, line))
            ELSE NormalLoop(ls, template_lines, i + 1,
                            remaining_lines, remaining_template_lines)

\* line_strict_check with near-match pairs dropped from the residues as well
RECURSIVE StrictLoopTolerant(_, _, _, _, _)
StrictLoopTolerant(ls, template_lines, i, remaining_lines, remaining_template_lines) ==
    IF i >= Len(ls) THEN Returned(remaining_lines, remaining_template_lines)
    ELSE LET line == ls[i + 1]
             template_line == template_lines[i + 1]
         IN IF line # template_line
               /\ levenshtein(line, template_line) > EDIT_DISTANCE_THRESHOLD
            THEN Returned(ls, template_lines)
            ELSE StrictLoopTolerant(ls, template_lines, i + 1,
                                    ListRemove(remaining_lines, line),
                                    ListRemove(remaining_template_lines, template_line))

line_strict_check_tolerant(ls, template_lines) ==
    IF Len(ls) = Len(template_lines)
    THEN StrictLoopTolerant(ls, template_lines, 0, ls, template_lines)
    ELSE Returned(ls, template_lines)

\* line_strict_check aligning a shorter fragment with the template's first lines
line_strict_check_unguarded(ls, template_lines) ==
    IF Len(ls) <= Len(template_lines)
    THEN StrictLoop(ls, template_lines, 0, ls, template_lines)
    ELSE Returned(ls, template_lines)

line_strict_check(ls, template_lines) ==
    IF Len(ls) = Len(template_lines)
    THEN StrictLoop(ls, template_lines, 0, ls, template_lines)
    ELSE Returned(ls, template_lines)

line_normal_check(ls, template_lines) ==
    NormalLoop(ls, template_lines, 0, ls, template_lines)

block_strict_check(block_lines, template_lines) ==
    IF Len(block_lines) = Len(template_lines)
    THEN StrictLoop(block_lines, template_lines, 0, block_lines, template_lines)
    ELSE Returned(block_lines, template_lines)

block_normal_check(block_lines, template_lines) ==
    NormalLoop(block_lines, template_lines, 0, block_lines, template_lines)

line_check_equal(ls, template_lines, compare_args) ==
    IF COMPARE_ARG_STRICT \in compare_args
    THEN line_strict_check(ls, template_lines)
    ELSE line_normal_check(ls, template_lines)

compare_lines(template_lines, ls, compare_method, compare_args) ==
    IF compare_method = COMPARE_METHOD_EQUALS
    THEN line_check_equal(ls, template_lines, compare_args)
    ELSE Returned(<<>>, <<>>)

----------------------------------------------------------------------------
(* The Fragment Comparator, block mode.  A Block is [start, end, content], *)
(* end = <<>> while no end marker is set.                                  *)

\* Block.get_content(add_start, add_end)
BlockGetContent(b, add_start, add_end) ==
    (IF add_start THEN <<b.start>> ELSE <<>>)
        \o b.content
        \o (IF add_end /\ b.end # <<>> THEN <<b.end>> ELSE <<>>)

is_hash_equal(block_lines, template_lines, strict_order) ==
    LET bl == IF strict_order THEN block_lines ELSE Sorted(block_lines)
        tl == IF strict_order THEN template_lines ELSE Sorted(template_lines)
    IN Hash(Join(bl)) = Hash(Join(tl))

\* filter(r.search, list) for the literal pattern p
RECURSIVE SearchFilter(_, _)
SearchFilter(p, list) ==
    IF list = <<>> THEN <<>>
    ELSE (IF Search(p, Head(list)) THEN <<Head(list)>> ELSE <<>>)
             \o SearchFilter(p, Tail(list))

\* the lines of list found by any of the ignore patterns, pattern by pattern
RECURSIVE FilteredLines(_, _)
FilteredLines(ignore_lines, list) ==
    IF ignore_lines = <<>> THEN <<>>
    ELSE SearchFilter(Head(ignore_lines), list) \o FilteredLines(Tail(ignore_lines), list)

\* [x for x in list if x not in filtered]
RECURSIVE Without(_, _)
Without(list, filtered) ==
    IF list = <<>> THEN <<>>
    ELSE (IF Contains(filtered, Head(list)) THEN <<>> ELSE <<Head(list)>>)
             \o Without(Tail(list), filtered)

\* filter_ignore_lines filtering the block side only
filter_ignore_lines_block_side(block_lines, template_lines, ignore_lines) ==
    [block_lines |-> Without(block_lines, FilteredLines(ignore_lines, block_lines)),
     template_lines |-> template_lines]

filter_ignore_lines(block_lines, template_lines, ignore_lines) ==
    [block_lines |-> Without(block_lines, FilteredLines(ignore_lines, block_lines)),
     template_lines |-> Without(template_lines, FilteredLines(ignore_lines, template_lines))]

TagAll(start, list) == [i \in 1..Len(list) |-> Tag(start, list[i])]

\* the outcome of a block comparison carries Template.content as the call
\* leaves it
BlockOutcome(is_raised, extra_lines, missing_lines, content) ==
    [raised |-> is_raised, extra |-> extra_lines, missing |-> missing_lines,
     template |-> content]

\* block_check_equal with the ignore patterns applied to an absent block's
\* template lines too
block_check_equal_absent_filtered(b, content, compare_args, ignore_lines) ==
    LET kept == Without(content, FilteredLines(ignore_lines, content))
    IN BlockOutcome(FALSE, <<>>, TagAll(b.start, kept), TagAll(b.start, content))

block_check_equal_present(b, content, compare_args, ignore_lines) ==
    LET add_block_start == COMPARE_ARG_KEEP_START \in compare_args
        add_block_end == COMPARE_ARG_KEEP_END \in compare_args
        block_lines == BlockGetContent(b, add_block_start, add_block_end)
        strict_mode == COMPARE_ARG_STRICT \in compare_args
        f == filter_ignore_lines(block_lines, content, ignore_lines)
        r == IF strict_mode
             THEN block_strict_check(f.block_lines, f.template_lines)
             ELSE block_normal_check(f.block_lines, f.template_lines)
    IN IF is_hash_equal(block_lines, content, strict_mode)
       THEN BlockOutcome(FALSE, <<>>, <<>>, content)
       ELSE IF r.raised THEN BlockOutcome(TRUE, <<>>, <<>>, content)
       ELSE BlockOutcome(FALSE, TagAll(b.start, r.extra), TagAll(b.start, r.missing),
                         content)

\* the template lines are tagged in place when the block has no content:
\* Template.content itself changes
block_check_equal_absent(b, content, compare_args, ignore_lines) ==
    BlockOutcome(FALSE, <<>>, TagAll(b.start, content), TagAll(b.start, content))

block_check_equal(b, content, compare_args, ignore_lines) ==
    IF BlockGetContent(b, FALSE, FALSE) = <<>>
    THEN block_check_equal_absent(b, content, compare_args, ignore_lines)
    ELSE block_check_equal_present(b, content, compare_args, ignore_lines)

compare_block(content, b, compare_method, compare_args, ignore_lines) ==
    IF compare_method = COMPARE_METHOD_EQUALS
    THEN block_check_equal(b, content, compare_args, ignore_lines)
    ELSE BlockOutcome(FALSE, <<>>, <<>>, content)

----------------------------------------------------------------------------
(* The Line/Block Extractor.  An outcome is [raised, found, block, config, *)
(* delete_indices]: config is config_lines as the call leaves it, and      *)
(* delete_indices the Python indices the call gathered, in gathering order.*)

RECURSIVE InsertDesc(_, _)
InsertDesc(list, n) ==
    IF list = <<>> THEN <<n>>
    ELSE IF n >= Head(list) THEN <<n>> \o list
    ELSE <<Head(list)>> \o InsertDesc(Tail(list), n)

\* reversed(sorted(delete_indices))
RECURSIVE ReversedSorted(_)
ReversedSorted(list) ==
    IF list = <<>> THEN <<>> ELSE InsertDesc(ReversedSorted(Tail(list)), Head(list))

\* for index in indices: del config[index]; an index out of range raises
RECURSIVE DeleteAll(_, _)
DeleteAll(config, indices) ==
    IF indices = <<>> THEN [raised |-> FALSE, config |-> config]
    ELSE IF Head(indices) >= Len(config) THEN [raised |-> TRUE, config |-> config]
    ELSE DeleteAll(DelAt(config, Head(indices) + 1), Tail(indices))

ExtractOutcome(found_lines, b, config, delete_indices) ==
    LET d == DeleteAll(config, ReversedSorted(delete_indices))
    IN [raised |-> d.raised, found |-> found_lines, block |-> b, config |-> d.config,
        delete_indices |-> delete_indices]

\* is_block_start(config[i], config[i + 1] or None), at Python index i
is_block_start(config, i) ==
    IF Len(config[i + 1]) = 0 \/ i + 1 >= Len(config) \/ Len(config[i + 2]) = 0
    THEN FALSE
    ELSE NotWhitespaceStart(config[i + 1]) /\ WhitespaceStart(config[i + 2])

\* extract_additional_lines: [indices, lines] from Python index i on
RECURSIVE extract_additional_lines(_, _, _, _, _)
extract_additional_lines(config, i, search_until, extra_indices, extra_lines) ==
    IF i >= Len(config) THEN [indices |-> extra_indices, lines |-> extra_lines]
    ELSE LET line == Strip(config[i + 1])
         IN IF EndsWith(line, search_until)
            THEN [indices |-> Append(extra_indices, i), lines |-> Append(extra_lines, line)]
            ELSE extract_additional_lines(config, i + 1, search_until,
                                          Append(extra_indices, i), Append(extra_lines, line))

\* extract_additional_lines2: [indices, lines] from Python index i on
RECURSIVE extract_additional_lines2(_, _, _, _, _)
extract_additional_lines2(config, i, search_until, extra_indices, extra_lines) ==
    IF i >= Len(config) THEN [indices |-> extra_indices, lines |-> extra_lines]
    ELSE IF ~StartsWith(config[i + 1], search_until)
         THEN LET line == Strip(config[i + 1])
              IN IF StartsWith(line, <<"!">>) \/ StartsWith(line, <<"\n">>)
                 THEN [indices |-> Append(extra_indices, i),
                       lines |-> Append(extra_lines, line)]
                 ELSE [indices |-> extra_indices, lines |-> extra_lines]
         ELSE extract_additional_lines2(config, i + 1, search_until,
                                        Append(extra_indices, i),
                                        Append(extra_lines, Strip(config[i + 1])))

\* the loop of extract_lines, at Python index i
RECURSIVE ExtractLinesLoop(_, _, _, _, _)
ExtractLinesLoop(config, search_start, i, found_lines, delete_indices) ==
    IF i >= Len(config) THEN ExtractOutcome(found_lines, <<>>, config, delete_indices)
    ELSE IF StartsWith(config[i + 1], search_start) /\ ~is_block_start(config, i)
         THEN LET line == Strip(config[i + 1])
                  more == IF EndsWith(line, <<"@">>)
                          THEN extract_additional_lines(config, i + 1, <<"@">>, <<>>, <<>>)
                          ELSE [indices |-> <<>>, lines |-> <<>>]
              IN ExtractLinesLoop(config, search_start, i + 1,
                                  Append(found_lines, line) \o more.lines,
                                  Append(delete_indices, i) \o more.indices)
         ELSE ExtractLinesLoop(config, search_start, i + 1, found_lines, delete_indices)

extract_lines(config, search_start, search_end) ==
    ExtractLinesLoop(config, search_start, 0, <<>>, <<>>)

\* the loop of extract_block_lines, at Python index i
RECURSIVE ExtractBlockLinesLoop(_, _, _, _, _)
ExtractBlockLinesLoop(config, search_start, i, found_lines, delete_indices) ==
    IF i >= Len(config) THEN ExtractOutcome(found_lines, <<>>, config, delete_indices)
    ELSE IF StartsWith(config[i + 1], search_start)
         THEN LET line == Strip(config[i + 1])
                  last_line == i + 1 >= Len(config)
                  more ==
                      IF EndsWith(line, <<"@">>)
                      THEN extract_additional_lines(config, i + 1, <<"@">>, <<>>, <<>>)
                      ELSE IF ~last_line /\ StartsWith(config[i + 2], <<" ">>)
                      THEN extract_additional_lines2(config, i + 1, <<" ">>, <<>>, <<>>)
                      ELSE [indices |-> <<>>, lines |-> <<>>]
              IN ExtractBlockLinesLoop(config, search_start, i + 1,
                                       Append(found_lines, line) \o more.lines,
                                       Append(delete_indices, i) \o more.indices)
         ELSE ExtractBlockLinesLoop(config, search_start, i + 1, found_lines, delete_indices)

extract_block_lines(config, search_start, search_end) ==
    ExtractBlockLinesLoop(config, search_start, 0, <<>>, <<>>)

is_end_of_block(line, search_end) ==
    IF search_end = <<>> THEN ~WhitespaceStart(line)
    ELSE ~WhitespaceStart(line) \/ StartsWith(line, search_end)

\* Block.add_content_line(line)
AddContentLine(b, line) ==
    IF line = <<>> THEN b ELSE [b EXCEPT !.content = Append(@, Strip(line))]

\* Block.set_end(end)
SetEnd(b, end) == IF end = <<>> THEN b ELSE [b EXCEPT !.end = end]

\* the while loop of extract_block, at Python index index
RECURSIVE ExtractBlockWalk(_, _, _, _, _)
ExtractBlockWalk(config, search_end, index, b, delete_indices) ==
    IF index < Len(config) /\ ~is_end_of_block(config[index + 1], search_end)
    THEN ExtractBlockWalk(config, search_end, index + 1,
                          AddContentLine(b, config[index + 1]),
                          Append(delete_indices, index))
    ELSE [index |-> index, block |-> b, delete_indices |-> delete_indices]

\* extract_block finding its start line by prefix instead of by equality
extract_block_prefix_start(config, search_start, search_end) ==
    LET b0 == [start |-> search_start, end |-> <<>>, content |-> <<>>]
        hits == {i \in 1..Len(config) : StartsWith(config[i], search_start)}
    IN IF hits = {}
       THEN [raised |-> FALSE, found |-> <<>>, block |-> b0, config |-> config,
             delete_indices |-> <<>>]
       ELSE LET start_index == (CHOOSE i \in hits : \A j \in hits : i <= j) - 1
                w == ExtractBlockWalk(config, search_end, start_index + 1, b0,
                                      <<start_index>>)
            IN IF w.index >= Len(config)
               THEN [raised |-> TRUE, found |-> <<>>, block |-> w.block,
                     config |-> config, delete_indices |-> w.delete_indices]
               ELSE IF config[w.index + 1] = search_end
               THEN ExtractOutcome(<<>>, SetEnd(w.block, search_end), config,
                                   Append(w.delete_indices, w.index))
               ELSE ExtractOutcome(<<>>, w.block, config, w.delete_indices)

extract_block(config, search_start, search_end) ==
    LET b0 == [start |-> search_start, end |-> <<>>, content |-> <<>>]
    IN IF ~Contains(config, search_start)
       THEN [raised |-> FALSE, found |-> <<>>, block |-> b0, config |-> config,
             delete_indices |-> <<>>]
       ELSE LET start_index == IndexOf(config, search_start) - 1
                w == ExtractBlockWalk(config, search_end, start_index + 1, b0,
                                      <<start_index>>)
            IN IF w.index >= Len(config)
               THEN [raised |-> TRUE, found |-> <<>>, block |-> w.block,
                     config |-> config, delete_indices |-> w.delete_indices]
               ELSE IF config[w.index + 1] = search_end
               THEN ExtractOutcome(<<>>, SetEnd(w.block, search_end), config,
                                   Append(w.delete_indices, w.index))
               ELSE ExtractOutcome(<<>>, w.block, config, w.delete_indices)

----------------------------------------------------------------------------
(* Global mode, template construction, validation and the result.          *)

\* the loop of check_global taking a configuration line only while the
\* template still has a copy of it left
RECURSIVE CheckGlobalLoopCounted(_, _, _, _, _)
CheckGlobalLoopCounted(config, template_lines, i, delete_indices, remaining_template_lines) ==
    IF i >= Len(config)
    THEN [delete_indices |-> delete_indices, missing |-> remaining_template_lines]
    ELSE LET line == Strip(config[i + 1])
         IN IF Contains(remaining_template_lines, line)
            THEN CheckGlobalLoopCounted(config, template_lines, i + 1,
                                        Append(delete_indices, i),
                                        ListRemove(remaining_template_lines, line))
            ELSE CheckGlobalLoopCounted(config, template_lines, i + 1, delete_indices,
                                        remaining_template_lines)

\* the loop of check_global, at Python index i
RECURSIVE CheckGlobalLoop(_, _, _, _, _)
CheckGlobalLoop(config, template_lines, i, delete_indices, remaining_template_lines) ==
    IF i >= Len(config)
    THEN [delete_indices |-> delete_indices, missing |-> remaining_template_lines]
    ELSE LET line == Strip(config[i + 1])
         IN IF Contains(template_lines, line)
            THEN CheckGlobalLoop(config, template_lines, i + 1, Append(delete_indices, i),
                                 IF Contains(remaining_template_lines, line)
                                 THEN ListRemove(remaining_template_lines, line)
                                 ELSE remaining_template_lines)
            ELSE CheckGlobalLoop(config, template_lines, i + 1, delete_indices,
                                 remaining_template_lines)

\* check_global handing the leftover configuration back as the extra residue
check_global_leftover_extra(config, template_lines, compare_method, compare_args) ==
    LET g == CheckGlobalLoop(config, template_lines, 0, <<>>, template_lines)
        d == DeleteAll(config, ReversedSorted(g.delete_indices))
    IN [raised |-> d.raised, extra |-> d.config, missing |-> g.missing, config |-> d.config,
        delete_indices |-> g.delete_indices]

check_global(config, template_lines, compare_method, compare_args) ==
    LET g == CheckGlobalLoop(config, template_lines, 0, <<>>, template_lines)
        d == DeleteAll(config, ReversedSorted(g.delete_indices))
    IN [raised |-> d.raised, extra |-> <<>>, missing |-> g.missing, config |-> d.config,
        delete_indices |-> g.delete_indices]

\* re.match("^\s*$", x)
IsBlank(x) == \A k \in 1..Len(x) : x[k] \in Whitespace

\* create_template: the rendered lines that are not blank, stripped
RECURSIVE create_template(_)
create_template(raw_lines) ==
    IF raw_lines = <<>> THEN <<>>
    ELSE (IF IsBlank(Head(raw_lines)) THEN <<>> ELSE <<Strip(Head(raw_lines))>>)
             \o create_template(Tail(raw_lines))

\* str.lower on the parameter values in use
Lower(v) ==
    CASE v = "LINE" -> "line" [] v = "EQUALS" -> "equals"
      [] v = "STRICT_ORDER" -> "strict_order" [] OTHER -> v

validate_compare_method(p) ==
    IF p.compare_method = ""
    THEN [error |-> "compare_method is empty, provide a valid compare_method", params |-> p]
    ELSE LET q == [p EXCEPT !.compare_method = Lower(@)]
         IN IF q.compare_method # COMPARE_METHOD_EQUALS
            THEN [error |-> "compare method is not supported", params |-> q]
            ELSE [error |-> "", params |-> q]

\* validate_search_mode without the check that search_start is given
validate_search_mode_any_start(p) ==
    IF p.search_mode = ""
    THEN [error |-> "search_mode is empty, provide a valid search_mode", params |-> p]
    ELSE LET q == [p EXCEPT !.search_mode = Lower(@)]
         IN IF q.search_mode \notin VALID_SEARCH_MODES
            THEN [error |-> "search mode is not supported", params |-> q]
            ELSE [error |-> "", params |-> q]

validate_search_mode(p) ==
    IF p.search_mode = ""
    THEN [error |-> "search_mode is empty, provide a valid search_mode", params |-> p]
    ELSE LET q == [p EXCEPT !.search_mode = Lower(@)]
         IN IF q.search_mode \notin VALID_SEARCH_MODES
            THEN [error |-> "search mode is not supported", params |-> q]
            ELSE IF q.search_mode # SEARCH_MODE_GLOBAL /\ q.search_start = <<>>
            THEN [error |-> "search_start is empty, you must provide a search_start",
                  params |-> q]
            ELSE [error |-> "", params |-> q]

validate_compare_args(p) ==
    LET q == [p EXCEPT !.compare_args = {Lower(a) : a \in @}]
    IN IF q.compare_args \ VALID_COMPARE_ARGS # {}
       THEN [error |-> "compare arguments are not supported", params |-> q]
       ELSE [error |-> "", params |-> q]

validate_input(p) ==
    IF p.source = "" THEN [error |-> "source is empty, provide a valid source", params |-> p]
    ELSE IF p.destination_expected = ""
    THEN [error |-> "destination_expected is empty", params |-> p]
    ELSE IF p.destination_not_expected = ""
    THEN [error |-> "destination_not_expected is empty", params |-> p]
    ELSE IF p.template = ""
    THEN [error |-> "template is empty, provide a valid template", params |-> p]
    ELSE LET m == validate_compare_method(p)
             sm == validate_search_mode(m.params)
             ca == validate_compare_args(sm.params)
         IN IF m.error # "" THEN m
            ELSE IF sm.error # "" THEN sm
            ELSE ca

\* the remove-commands with "no " put before every line, negated or not
RECURSIVE NotExpectedCommandsAlwaysPrefixed(_)
NotExpectedCommandsAlwaysPrefixed(too_much_lines) ==
    IF too_much_lines = <<>> THEN <<>>
    ELSE LET line == RemoveDelimiter(Head(too_much_lines))
         IN (IF line = <<>> THEN <<>> ELSE <<<<"n", "o", " ">> \o line>>)
                \o NotExpectedCommandsAlwaysPrefixed(Tail(too_much_lines))

\* the remove-commands of run_module: "no " before each line that lacks it
RECURSIVE NotExpectedCommands(_)
NotExpectedCommands(too_much_lines) ==
    IF too_much_lines = <<>> THEN <<>>
    ELSE LET line == RemoveDelimiter(Head(too_much_lines))
         IN (IF line = <<>> THEN <<>>
             ELSE IF ~StartsWith(line, <<"n", "o", " ">>) THEN <<<<"n", "o", " ">> \o line>>
             ELSE <<line>>)
                \o NotExpectedCommands(Tail(too_much_lines))

ExpectedCommands(missing_lines) ==
    [i \in 1..Len(missing_lines) |-> RemoveDelimiter(missing_lines[i])]

\* the result with changed raised by any residue, whatever changed_if says
SuccessResultAnyChange(result, extra_lines, missing_lines, changed_if, content) ==
    [result EXCEPT !.not_expected_changed = extra_lines # <<>>,
                   !.not_expected = extra_lines,
                   !.not_expected_commands = NotExpectedCommands(extra_lines),
                   !.expected_changed = missing_lines # <<>>,
                   !.expected = missing_lines,
                   !.expected_commands = ExpectedCommands(missing_lines),
                   !.changed = extra_lines # <<>> \/ missing_lines # <<>>,
                   !.all_commands = content,
                   !.msg = "Success"]

\* lines 359-392 of run_module: the result of a run that got its residues
SuccessResult(result, extra_lines, missing_lines, changed_if, content) ==
    LET r1 == IF extra_lines # <<>>
              THEN [result EXCEPT !.not_expected_changed = TRUE,
                                  !.not_expected = extra_lines,
                                  !.changed = IF changed_if \in {"both", "not_expected"}
                                              THEN TRUE ELSE @,
                                  !.not_expected_commands = NotExpectedCommands(extra_lines)]
              ELSE result
        r2 == IF missing_lines # <<>>
              THEN [r1 EXCEPT !.expected_changed = TRUE,
                              !.expected = missing_lines,
                              !.changed = IF changed_if \in {"both", "expected"}
                                          THEN TRUE ELSE @,
                              !.expected_commands = ExpectedCommands(missing_lines)]
              ELSE r1
    IN [r2 EXCEPT !.all_commands = content, !.msg = "Success"]

\* module.fail_json(**module_result) with the message set
FailResult(result, message) == [result EXCEPT !.msg = message, !.failed = TRUE]

\* write_results and write_remaining_config: the files they open
Written(extra_lines, missing_lines, remaining_config) ==
    (IF missing_lines # <<>> THEN {"destination_expected"} ELSE {})
        \cup (IF extra_lines # <<>> THEN {"destination_not_expected"} ELSE {})
        \cup (IF remaining_config # <<>> THEN {"source rewritten"} ELSE {})

----------------------------------------------------------------------------
(* State shared by the specifications.                                     *)
(*   pc                where the run, or the operation under check, stands *)
(*   params            module.params                                       *)
(*   config_lines      the configuration list (mutated in place)           *)
(*   template_content  Template.content (shared with its readers)         *)
(*   lines, block      the extracted fragment                              *)
(*   too_much, missing the residues                                        *)
(*   module_result     the result handed to the host                       *)
(*   io                the files read and written so far                   *)
(*   hist              the inputs as they were, and the operation applied  *)
(*                     (diff: the distance levenshtein returned)           *)

NoParams ==
    [source |-> "", destination_expected |-> "", destination_not_expected |-> "",
     template |-> "", search_mode |-> "", search_start |-> <<>>, search_end |-> <<>>,
     compare_method |-> "", compare_args |-> {}, ignore_lines |-> <<>>,
     file_output |-> FALSE, changed_if |-> "both"]

NoBlock == [start |-> <<>>, end |-> <<>>, content |-> <<>>]

InitialResult ==
    [changed |-> FALSE, failed |-> FALSE, msg |-> "", expected_changed |-> FALSE,
     expected |-> <<>>, not_expected_changed |-> FALSE, not_expected |-> <<>>,
     not_expected_commands |-> <<>>, expected_commands |-> <<>>, all_commands |-> <<>>]

NoHist ==
    [op |-> "", config |-> <<>>, template |-> <<>>, lines |-> <<>>, delete_indices |-> <<>>,
     diff |-> 0]

----------------------------------------------------------------------------
(* SpecCmp: the four line comparators applied to every fragment and        *)
(* template of at most MaxLines lines over CmpPool.                        *)

LineX == <<"x">>
LineA7 == Rep("a", EDIT_DISTANCE_THRESHOLD + 1)
LineB7 == Rep("b", EDIT_DISTANCE_THRESHOLD + 1)
LineA8 == Rep("a", EDIT_DISTANCE_THRESHOLD + 2)

CmpPool == {LineX, LineA7, LineB7, LineA8}

CmpInit ==
    /\ pc = "cmp"
    /\ params = NoParams
    /\ config_lines = <<>>
    /\ lines \in SeqsOf(CmpPool, 0, MaxLines)
    /\ template_content \in SeqsOf(CmpPool, 0, MaxLines)
    /\ block = NoBlock
    /\ too_much = <<>>
    /\ missing = <<>>
    /\ module_result = InitialResult
    /\ io = {}
    /\ hist = NoHist

CmpApply(name, outcome) ==
    /\ pc = "cmp"
    /\ pc' = IF outcome.raised THEN "raised" ELSE "returned"
    /\ too_much' = outcome.extra
    /\ missing' = outcome.missing
    /\ hist' = [hist EXCEPT !.op = name, !.lines = lines, !.template = template_content]
    /\ UNCHANGED <<params, config_lines, template_content, lines, block, module_result, io>>

CmpLineStrict == CmpApply("line_strict_check", line_strict_check(lines, template_content))

CmpLineNormal == CmpApply("line_normal_check", line_normal_check(lines, template_content))

CmpBlockStrict == CmpApply("block_strict_check", block_strict_check(lines, template_content))

CmpBlockNormal == CmpApply("block_normal_check", block_normal_check(lines, template_content))

CmpNext == CmpLineStrict \/ CmpLineNormal \/ CmpBlockStrict \/ CmpBlockNormal

SpecCmp == CmpInit /\ [][CmpNext]_vars

----------------------------------------------------------------------------
(* SpecBlock: block_check_equal applied to every Block of at most MaxBlock *)
(* content lines and every template of 1..MaxTemplate lines over           *)
(* BlockPool, under every set of compare args and each ignore list.        *)

LineA == <<"a">>
LineB == <<"b">>
LineAB == <<"a", "b">>
BlockStart == <<"s">>
BlockEnd == <<"!">>

BlockPool == {LineA, LineB, LineAB}

IgnoreChoices == {<<>>, <<LineA>>, <<LineB, BlockStart>>}

BlkInit ==
    /\ pc = "blk"
    /\ \E ca \in SUBSET VALID_COMPARE_ARGS, il \in IgnoreChoices :
          params = [NoParams EXCEPT !.search_mode = SEARCH_MODE_BLOCK,
                                    !.search_start = BlockStart,
                                    !.search_end = BlockEnd,
                                    !.compare_method = COMPARE_METHOD_EQUALS,
                                    !.compare_args = ca,
                                    !.ignore_lines = il]
    /\ config_lines = <<>>
    /\ template_content \in SeqsOf(BlockPool, 1, MaxTemplate)
    /\ lines = <<>>
    /\ \E e \in {<<>>, BlockEnd}, c \in SeqsOf(BlockPool, 0, MaxBlock) :
          block = [start |-> BlockStart, end |-> e, content |-> c]
    /\ too_much = <<>>
    /\ missing = <<>>
    /\ module_result = InitialResult
    /\ io = {}
    /\ hist = NoHist

BlkCheckEqual ==
    /\ pc = "blk"
    /\ LET r == block_check_equal(block, template_content, params.compare_args,
                                  params.ignore_lines)
       IN /\ pc' = IF r.raised THEN "raised" ELSE "returned"
          /\ too_much' = r.extra
          /\ missing' = r.missing
          /\ template_content' = r.template
    /\ hist' = [hist EXCEPT !.op = "block_check_equal", !.template = template_content]
    /\ UNCHANGED <<params, config_lines, lines, block, module_result, io>>

BlkNext == BlkCheckEqual

SpecBlock == BlkInit /\ [][BlkNext]_vars


----------------------------------------------------------------------------
(* SpecExtract: the three extractors applied to every configuration of at  *)
(* most MaxExtract lines over ExtractPool, searching for "a".              *)

LineAAt == <<"a", "@">>
LineXAt == <<"x", "@">>
LineIndentedB == <<" ", "b">>
LineBang == <<"!">>

LineEmpty == <<>>

ExtractPool == {LineA, LineAAt, LineXAt, LineIndentedB, LineBang, LineEmpty}

ExtInit ==
    /\ pc = "ext"
    /\ \E e \in {<<>>, LineBang} :
          params = [NoParams EXCEPT !.search_start = LineA, !.search_end = e]
    /\ config_lines \in SeqsOf(ExtractPool, 0, MaxExtract)
    /\ template_content = <<>>
    /\ lines = <<>>
    /\ block = NoBlock
    /\ too_much = <<>>
    /\ missing = <<>>
    /\ module_result = InitialResult
    /\ io = {}
    /\ hist = NoHist

ExtApply(name, outcome) ==
    /\ pc = "ext"
    /\ pc' = IF outcome.raised THEN "raised" ELSE "returned"
    /\ lines' = outcome.found
    /\ block' = outcome.block
    /\ config_lines' = outcome.config
    /\ hist' = [hist EXCEPT !.op = name, !.config = config_lines,
                            !.delete_indices = outcome.delete_indices]
    /\ UNCHANGED <<params, template_content, too_much, missing, module_result, io>>

ExtLines ==
    ExtApply("extract_lines",
             [extract_lines(config_lines, params.search_start, params.search_end)
                 EXCEPT !.block = NoBlock])

ExtBlockLines ==
    ExtApply("extract_block_lines",
             [extract_block_lines(config_lines, params.search_start, params.search_end)
                 EXCEPT !.block = NoBlock])

ExtBlock ==
    ExtApply("extract_block",
             extract_block(config_lines, params.search_start, params.search_end))

ExtNext == ExtLines \/ ExtBlockLines \/ ExtBlock

SpecExtract == ExtInit /\ [][ExtNext]_vars


----------------------------------------------------------------------------
(* Spec: one run of run_module.  The parameters are there from the start;  *)
(* the configuration file and the rendered template are read when the run  *)
(* reaches them.                                                           *)

LineS == <<"s">>
LineIndentedA == <<" ", "a">>

ConfigPool == {LineS, LineIndentedA, LineBang}
RenderPool == {LineA, LineS, <<" ">>}

BaseParams ==
    [NoParams EXCEPT !.source = "startupConfig.txt",
                     !.destination_expected = "expected.txt",
                     !.destination_not_expected = "not_expected.txt",
                     !.template = "template.j2",
                     !.search_start = LineS,
                     !.search_end = LineBang,
                     !.compare_method = COMPARE_METHOD_EQUALS]

LineModeParams ==
    {[BaseParams EXCEPT !.search_mode = m, !.compare_args = ca] :
        m \in {SEARCH_MODE_LINE, SEARCH_MODE_BLOCK_LINES},
        ca \in {{}, {COMPARE_ARG_STRICT}}}

BlockModeParams ==
    {[BaseParams EXCEPT !.search_mode = SEARCH_MODE_BLOCK, !.compare_args = ca,
                        !.ignore_lines = il] :
        ca \in {{}, {COMPARE_ARG_STRICT}, {COMPARE_ARG_KEEP_START, COMPARE_ARG_KEEP_END},
                VALID_COMPARE_ARGS},
        il \in {<<>>, <<LineA>>}}

GlobalModeParams ==
    {[BaseParams EXCEPT !.search_mode = SEARCH_MODE_GLOBAL, !.search_start = <<>>,
                        !.search_end = <<>>]}

InvalidParams ==
    {[BaseParams EXCEPT !.search_mode = "lines"],
     [BaseParams EXCEPT !.search_mode = SEARCH_MODE_LINE, !.search_start = <<>>],
     [BaseParams EXCEPT !.search_mode = SEARCH_MODE_LINE, !.compare_args = {"strict"}],
     [BaseParams EXCEPT !.search_mode = SEARCH_MODE_LINE, !.source = ""],
     [BaseParams EXCEPT !.search_mode = SEARCH_MODE_LINE, !.template = ""],
     [BaseParams EXCEPT !.search_mode = SEARCH_MODE_LINE, !.compare_method = ""],
     [BaseParams EXCEPT !.search_mode = SEARCH_MODE_LINE, !.compare_method = "contains"],
     [BaseParams EXCEPT !.search_mode = ""],
     [BaseParams EXCEPT !.search_mode = SEARCH_MODE_BLOCK, !.search_start = <<>>,
                        !.compare_args = {COMPARE_ARG_KEEP_START}]}

\* values in upper case, which validation takes in lower case
CasedParams ==
    {[BaseParams EXCEPT !.search_mode = "LINE", !.compare_method = "EQUALS",
                        !.compare_args = {"STRICT_ORDER"}]}

RunParams ==
    {[p EXCEPT !.changed_if = c, !.file_output = f] :
        p \in LineModeParams \cup BlockModeParams \cup GlobalModeParams \cup InvalidParams
                \cup CasedParams,
        c \in {"both", "expected", "not_expected"},
        f \in BOOLEAN}

Init ==
    /\ pc = "start"
    /\ params \in RunParams
    /\ config_lines = <<>>
    /\ template_content = <<>>
    /\ lines = <<>>
    /\ block = NoBlock
    /\ too_much = <<>>
    /\ missing = <<>>
    /\ module_result = InitialResult
    /\ io = {}
    /\ hist = NoHist

Fail(message) ==
    /\ pc' = "failed"
    /\ module_result' = FailResult(module_result, message)

\* run_module, lines 287-293
Validate ==
    /\ pc = "start"
    /\ LET v == validate_input(params)
       IN /\ params' = v.params
          /\ IF v.error # ""
             THEN Fail(v.error)
             ELSE pc' = "validated" /\ UNCHANGED module_result
    /\ UNCHANGED <<config_lines, template_content, lines, block, too_much, missing, io, hist>>

\* run_module, lines 310-322: the file holds any configuration, or cannot be read
LoadConfig ==
    /\ pc = "validated"
    /\ \/ \E file \in SeqsOf(ConfigPool, 0, MaxConfig) :
             /\ config_lines' = file
             /\ hist' = [hist EXCEPT !.config = file]
             /\ io' = io \cup {"source read"}
             /\ pc' = "loaded"
             /\ UNCHANGED module_result
       \/ /\ Fail("Exception while loading config file")
          /\ UNCHANGED <<config_lines, hist, io>>
    /\ UNCHANGED <<params, template_content, lines, block, too_much, missing>>

\* run_module, lines 324-330: the template renders to any lines
CreateTemplate ==
    /\ pc = "loaded"
    /\ \E rendered \in SeqsOf(RenderPool, 0, MaxTemplate) :
          LET content == create_template(rendered)
          IN IF content = <<>>
             THEN /\ Fail("Exception while rendering template")
                  /\ UNCHANGED <<template_content, hist>>
             ELSE /\ template_content' = content
                  /\ hist' = [hist EXCEPT !.template = content]
                  /\ pc' = "rendered"
                  /\ UNCHANGED module_result
    /\ io' = io \cup {"template read"}
    /\ UNCHANGED <<params, config_lines, lines, block, too_much, missing>>

\* the end of a mode's branch: the residues, or the exception caught at line 393
Compared(is_raised, extra_lines, missing_lines) ==
    IF is_raised
    THEN /\ Fail("Exception during compare")
         /\ UNCHANGED <<too_much, missing>>
    ELSE /\ pc' = "compared"
         /\ too_much' = extra_lines
         /\ missing' = missing_lines
         /\ UNCHANGED module_result

\* run_module, lines 333-335
RunLine ==
    /\ pc = "rendered"
    /\ params.search_mode = SEARCH_MODE_LINE
    /\ LET e == extract_lines(config_lines, params.search_start, params.search_end)
           c == compare_lines(template_content, e.found, params.compare_method,
                              params.compare_args)
       IN /\ config_lines' = e.config
          /\ lines' = IF e.raised THEN lines ELSE e.found
          /\ hist' = [hist EXCEPT !.op = "line", !.delete_indices = e.delete_indices]
          /\ Compared(e.raised \/ c.raised, c.extra, c.missing)
    /\ UNCHANGED <<params, template_content, block, io>>

\* run_module, lines 337-339
RunBlock ==
    /\ pc = "rendered"
    /\ params.search_mode = SEARCH_MODE_BLOCK
    /\ LET e == extract_block(config_lines, params.search_start, params.search_end)
           c == compare_block(template_content, e.block, params.compare_method,
                              params.compare_args, params.ignore_lines)
       IN /\ config_lines' = e.config
          /\ block' = IF e.raised THEN block ELSE e.block
          /\ template_content' = IF e.raised THEN template_content ELSE c.template
          /\ hist' = [hist EXCEPT !.op = "block", !.delete_indices = e.delete_indices]
          /\ Compared(e.raised \/ c.raised, c.extra, c.missing)
    /\ UNCHANGED <<params, lines, io>>

\* run_module, lines 341-343
RunBlockLines ==
    /\ pc = "rendered"
    /\ params.search_mode = SEARCH_MODE_BLOCK_LINES
    /\ LET e == extract_block_lines(config_lines, params.search_start, params.search_end)
           c == compare_lines(template_content, e.found, params.compare_method,
                              params.compare_args)
       IN /\ config_lines' = e.config
          /\ lines' = IF e.raised THEN lines ELSE e.found
          /\ hist' = [hist EXCEPT !.op = "block_lines",
                                  !.delete_indices = e.delete_indices]
          /\ Compared(e.raised \/ c.raised, c.extra, c.missing)
    /\ UNCHANGED <<params, template_content, block, io>>

\* run_module, lines 345-347
RunGlobal ==
    /\ pc = "rendered"
    /\ params.search_mode = SEARCH_MODE_GLOBAL
    /\ LET g == check_global(config_lines, template_content, params.compare_method,
                             params.compare_args)
       IN /\ config_lines' = g.config
          /\ hist' = [hist EXCEPT !.op = "global", !.delete_indices = g.delete_indices]
          /\ Compared(g.raised, g.extra, g.missing)
    /\ UNCHANGED <<params, template_content, lines, block, io>>

\* run_module, lines 355-392
Finish ==
    /\ pc = "compared"
    /\ pc' = "done"
    /\ io' = IF params.file_output
             THEN io \cup Written(too_much, missing, config_lines)
             ELSE io
    /\ module_result' = SuccessResult(module_result, too_much, missing, params.changed_if,
                                      template_content)
    /\ UNCHANGED <<params, config_lines, template_content, lines, block, too_much, missing,
                   hist>>

Next ==
    \/ Validate
    \/ LoadConfig
    \/ CreateTemplate
    \/ RunLine
    \/ RunBlock
    \/ RunBlockLines
    \/ RunGlobal
    \/ Finish

Spec == Init /\ [][Next]_vars


----------------------------------------------------------------------------
(* SpecSynth: the command synthesis at the end of run_module applied to     *)
(* every pair of residues of at most MaxResidue lines: the tagged residues *)
(* of a block comparison, or the plain residues of a line comparison.  A   *)
(* whitespace-only line of a block is content "" and so the extra residue  *)
(* that is nothing but its tag.                                            *)

LineNoA == <<"n", "o", " ", "a">>
LineNoa == <<"n", "o", "a">>

ExtraPool(mode) ==
    IF mode = SEARCH_MODE_BLOCK
    THEN {Tag(LineS, l) : l \in {<<>>, LineA, LineNoA, LineNoa}}
    ELSE {LineA, LineNoA, LineNoa}

MissingPool(mode) ==
    IF mode = SEARCH_MODE_BLOCK
    THEN {Tag(LineS, l) : l \in {LineA, LineNoA}}
    ELSE {LineA, LineNoA}

SynthInit ==
    /\ pc = "compared"
    /\ \E m \in {SEARCH_MODE_LINE, SEARCH_MODE_BLOCK},
          c \in {"both", "expected", "not_expected"} :
          /\ params = [BaseParams EXCEPT !.search_mode = m, !.changed_if = c]
          /\ too_much \in SeqsOf(ExtraPool(m), 0, MaxResidue)
          /\ missing \in SeqsOf(MissingPool(m), 0, MaxResidue)
    /\ config_lines = <<>>
    /\ template_content = <<LineA, LineNoA>>
    /\ lines = <<>>
    /\ block = NoBlock
    /\ module_result = InitialResult
    /\ io = {"source read", "template read"}
    /\ hist = [NoHist EXCEPT !.template = <<LineA, LineNoA>>]

SynthNext == Finish

SpecSynth == SynthInit /\ [][SynthNext]_vars

----------------------------------------------------------------------------
(* SpecLev: levenshtein applied to every pair of a fragment line and a      *)
(* template line of at most MaxWord characters over LevAlphabet, as the    *)
(* strict checks call it.                                                  *)

LevAlphabet == {"a", "b"}

LevInit ==
    /\ pc = "lev"
    /\ params = NoParams
    /\ config_lines = <<>>
    /\ \E s \in SeqsOf(LevAlphabet, 0, MaxWord) : lines = <<s>>
    /\ \E t \in SeqsOf(LevAlphabet, 0, MaxWord) : template_content = <<t>>
    /\ block = NoBlock
    /\ too_much = <<>>
    /\ missing = <<>>
    /\ module_result = InitialResult
    /\ io = {}
    /\ hist = NoHist

\* diff = levenshtein(line, template_line)
LevDistance ==
    /\ pc = "lev"
    /\ pc' = "returned"
    /\ hist' = [hist EXCEPT !.op = "levenshtein",
                            !.diff = levenshtein(lines[1], template_content[1])]
    /\ UNCHANGED <<params, config_lines, template_content, lines, block, too_much, missing,
                   module_result, io>>

LevNext == LevDistance

SpecLev == LevInit /\ [][LevNext]_vars

----------------------------------------------------------------------------
(* Claims about the line comparators (SpecCmp).                            *)

Min2(a, b) == IF a <= b THEN a ELSE b

\* occurrences of x in list
Count(list, x) == Cardinality({i \in 1..Len(list) : list[i] = x})

\* the classic edit distance: insertions, deletions and substitutions
RECURSIVE EditRow(_, _, _, _)
EditRow(prev, ch, t, row) ==
    IF Len(row) = Len(prev) THEN row
    ELSE LET j == Len(row)
             cost == IF ch = t[j] THEN 0 ELSE 1
         IN EditRow(prev, ch, t,
                    Append(row, Min2(Min2(prev[j + 1] + 1, row[j] + 1), prev[j] + cost)))

RECURSIVE EditRows(_, _, _, _)
EditRows(s, t, i, prev) ==
    IF i > Len(s) THEN prev[Len(t) + 1]
    ELSE EditRows(s, t, i + 1, EditRow(prev, s[i], t, <<i>>))

EditDistance(s, t) == EditRows(s, t, 1, [j \in 1..(Len(t) + 1) |-> j - 1])

NormalOps == {"line_normal_check", "block_normal_check"}
StrictOps == {"line_strict_check", "block_strict_check"}

\* positions where fragment and template differ (lists of equal length)
DiffPositions == {i \in 1..Len(hist.lines) : hist.lines[i] # hist.template[i]}

WithinThreshold ==
    \A i \in DiffPositions :
        EditDistance(hist.lines[i], hist.template[i]) <= EDIT_DISTANCE_THRESHOLD

\* C1: the order-insensitive comparison returns, without error, the multiset
\* difference: missing is T less the multiset intersection of F and T, extra is
\* F less it, and len(missing) = len(T) - |F n T|.
C1_MultisetDifference ==
    hist.op \in NormalOps =>
        /\ pc = "returned"
        /\ \A x \in CmpPool :
              LET common == Min2(Count(hist.lines, x), Count(hist.template, x))
              IN /\ Count(missing, x) = Count(hist.template, x) - common
                 /\ Count(too_much, x) = Count(hist.lines, x) - common

\* C2 as stated: strict order, equal lengths, every pair identical or within
\* the threshold: both residues are empty.
C2_NearMatchesLeaveNoResidue ==
    (hist.op \in StrictOps /\ Len(hist.lines) = Len(hist.template) /\ WithinThreshold)
        => (pc = "returned" /\ too_much = <<>> /\ missing = <<>>)

\* C2 amended: strict order, equal lengths, every pair identical or within the
\* threshold: the identical pairs are removed and each other pair stays, so
\* extra holds the fragment's lines of the differing positions and missing the
\* template's (as multisets), and the residues are empty only if all pairs are
\* identical.
C2_NearMatchesStay ==
    (hist.op \in StrictOps /\ Len(hist.lines) = Len(hist.template) /\ WithinThreshold)
        => /\ pc = "returned"
           /\ Len(too_much) = Cardinality(DiffPositions)
           /\ Len(missing) = Cardinality(DiffPositions)
           /\ \A x \in CmpPool :
                 /\ Count(too_much, x)
                      = Cardinality({i \in DiffPositions : hist.lines[i] = x})
                 /\ Count(missing, x)
                      = Cardinality({i \in DiffPositions : hist.template[i] = x})

C2_Witness ==
    /\ hist.op = "line_strict_check"
    /\ Len(hist.lines) = Len(hist.template)
    /\ WithinThreshold
    /\ DiffPositions # {}
    /\ DiffPositions # 1..Len(hist.lines)
    /\ too_much # <<>>

\* C3: strict order, equal lengths, some pair differing by an edit distance
\* above the threshold: extra is the whole fragment and missing the whole
\* template.
C3_AbandonedAboveThreshold ==
    (hist.op \in StrictOps /\ Len(hist.lines) = Len(hist.template) /\ ~WithinThreshold)
        => (pc = "returned" /\ too_much = hist.lines /\ missing = hist.template)

\* C4: strict order, different lengths: extra is the fragment and missing the
\* template, unchanged.
C4_LengthMismatchUnchanged ==
    (hist.op \in StrictOps /\ Len(hist.lines) # Len(hist.template))
        => (pc = "returned" /\ too_much = hist.lines /\ missing = hist.template)

C4_Witness ==
    /\ hist.op = "line_strict_check"
    /\ Len(hist.lines) < Len(hist.template)
    /\ hist.lines # <<>>
    /\ hist.lines[1] = hist.template[1]
    /\ too_much = hist.lines

----------------------------------------------------------------------------
(* Claims about the block comparison (SpecBlock).                          *)

\* a line some ignore pattern finds
Ignored(line) ==
    \E k \in 1..Len(params.ignore_lines) : Search(params.ignore_lines[k], line)

BlockChecked == hist.op = "block_check_equal"

\* C5: a Block without content lines, any compare args and ignore list: extra
\* is empty and missing is every template line, in template order, behind the
\* block's start marker and the delimiter.
C5_AbsentBlockAllMissing ==
    (BlockChecked /\ block.content = <<>>)
        => /\ pc = "returned"
           /\ too_much = <<>>
           /\ Len(missing) = Len(hist.template)
           /\ \A i \in 1..Len(missing) :
                 missing[i] = block.start \o LINE_DELIMITER \o hist.template[i]

C5_Witness ==
    /\ BlockChecked
    /\ block.content = <<>>
    /\ Len(hist.template) = MaxTemplate
    /\ \E i \in 1..Len(hist.template) : Ignored(hist.template[i])
    /\ params.compare_args = VALID_COMPARE_ARGS
    /\ Len(missing) = MaxTemplate

\* C6 as stated: block present or absent, no residue line is, once its tag is
\* stripped, a line an ignore pattern matches.
C6_NoIgnoredResidue ==
    (BlockChecked /\ pc = "returned")
        => /\ \A i \in 1..Len(too_much) : ~Ignored(RemoveDelimiter(too_much[i]))
           /\ \A i \in 1..Len(missing) : ~Ignored(RemoveDelimiter(missing[i]))

\* the line a residue line tags: what follows the start marker and delimiter
Untagged(residue_line) ==
    SubSeq(residue_line, Len(block.start) + Len(LINE_DELIMITER) + 1, Len(residue_line))

IsTagged(residue_line) == StartsWith(residue_line, block.start \o LINE_DELIMITER)

\* C6 amended: with a block that has content lines, every residue line is the
\* start marker and the delimiter followed by a line no ignore pattern matches.
C6_NoIgnoredResidueOfPresentBlock ==
    (BlockChecked /\ pc = "returned" /\ block.content # <<>>)
        => /\ \A i \in 1..Len(too_much) :
                 IsTagged(too_much[i]) /\ ~Ignored(Untagged(too_much[i]))
           /\ \A i \in 1..Len(missing) :
                 IsTagged(missing[i]) /\ ~Ignored(Untagged(missing[i]))

C6_Witness ==
    /\ BlockChecked
    /\ pc = "returned"
    /\ \E i \in 1..Len(block.content) : Ignored(block.content[i])
    /\ \E i \in 1..Len(hist.template) : Ignored(hist.template[i])
    /\ too_much # <<>>
    /\ missing # <<>>

----------------------------------------------------------------------------
(* Claims about extraction (SpecExtract).                                  *)

\* the positions (1-based) the extractor gathered for deletion
Consumed == {hist.delete_indices[k] + 1 : k \in 1..Len(hist.delete_indices)}

\* list without the positions in gone, order kept
RECURSIVE Retain(_, _, _)
Retain(list, gone, i) ==
    IF i > Len(list) THEN <<>>
    ELSE (IF i \in gone THEN <<>> ELSE <<list[i]>>) \o Retain(list, gone, i + 1)

LineExtracted == hist.op \in {"extract_lines", "extract_block_lines"}

\* C7: line and block_lines extraction partition the configuration: what
\* remains is the original with the consumed positions removed, in order, and
\* each consumed position gave exactly one fragment entry.
C7_ExtractionPartitions ==
    (LineExtracted /\ pc = "returned")
        => /\ config_lines = Retain(hist.config, Consumed, 1)
           /\ Len(lines) = Cardinality(Consumed)

----------------------------------------------------------------------------
(* Claims about a run (Spec).                                              *)

\* C8: the template is read-only: a successful run leaves Template.content as
\* rendered, and all_commands is that content.
C8_TemplateReadOnly ==
    pc = "done"
        => /\ template_content = hist.template
           /\ module_result.all_commands = hist.template

\* C9: global mode never yields an extra residue: the comparison returns, extra
\* is empty, and a finished run reports nothing as not expected.
C9_GlobalNoExtra ==
    hist.op = "global"
        => /\ pc \in {"compared", "done"}
           /\ too_much = <<>>
           /\ pc = "done" => /\ module_result.not_expected = <<>>
                             /\ ~module_result.not_expected_changed
                             /\ module_result.not_expected_commands = <<>>

C9_Witness ==
    /\ hist.op = "global"
    /\ pc = "done"
    /\ config_lines # <<>>
    /\ Len(config_lines) < Len(hist.config)
    /\ missing # <<>>

\* C10: in a successful run the flags mirror the residues: expected_changed iff
\* missing is non-empty, not_expected_changed iff extra is non-empty, changed
\* iff a non-empty residue is one changed_if counts.
C10_FlagsMirrorResidues ==
    pc = "done"
        => /\ module_result.expected_changed = (missing # <<>>)
           /\ module_result.not_expected_changed = (too_much # <<>>)
           /\ module_result.expected = missing
           /\ module_result.not_expected = too_much
           /\ module_result.changed
                = (\/ missing # <<>> /\ params.changed_if \in {"both", "expected"}
                   \/ too_much # <<>> /\ params.changed_if \in {"both", "not_expected"})

C10_Witness ==
    /\ pc = "done"
    /\ params.changed_if = "expected"
    /\ too_much # <<>>
    /\ missing = <<>>
    /\ ~module_result.changed
    /\ module_result.not_expected_changed

----------------------------------------------------------------------------
(* Claims about command synthesis (SpecSynth).                             *)

NoPrefix == <<"n", "o", " ">>

\* a line negated: "no " put before it unless it starts with "no " already
Negated(line) == IF StartsWith(line, NoPrefix) THEN line ELSE NoPrefix \o line

Stripped(residue) == [i \in 1..Len(residue) |-> RemoveDelimiter(residue[i])]

NonEmptyLine(line) == line # <<>>

\* C11 as stated: the commands follow the residues line for line: each missing
\* line gives its tag-stripped form as an add-command, and each extra line
\* gives exactly one remove-command, its tag-stripped form negated.
C11_OneCommandPerResidueLine ==
    pc = "done"
        => /\ module_result.expected_commands = Stripped(missing)
           /\ module_result.not_expected_commands
                = [i \in 1..Len(too_much) |-> Negated(Stripped(too_much)[i])]

\* C11 amended: the add-commands are the tag-stripped missing lines, and the
\* remove-commands are, in order, the negated tag-stripped forms of the extra
\* lines that are not empty once their tag is stripped; an extra line that is
\* only its tag gives no command.
C11_OneCommandPerNonEmptyLine ==
    pc = "done"
        => /\ module_result.expected_commands = Stripped(missing)
           /\ LET kept == SelectSeq(Stripped(too_much), NonEmptyLine)
              IN module_result.not_expected_commands
                    = [i \in 1..Len(kept) |-> Negated(kept[i])]

C11_Witness ==
    /\ pc = "done"
    /\ \E i \in 1..Len(too_much) : Stripped(too_much)[i] = <<>>
    /\ \E i \in 1..Len(too_much) : StartsWith(Stripped(too_much)[i], NoPrefix)
    /\ module_result.not_expected_commands = <<LineNoA>>
    /\ \E i \in 1..Len(missing) : missing[i] # Stripped(missing)[i]

----------------------------------------------------------------------------
(* Further claims about extraction (SpecExtract).                          *)

\* no line of the configuration matches the start regex (re.match)
NoRegexMatch ==
    \A i \in 1..Len(hist.config) : ~StartsWith(hist.config[i], params.search_start)

\* no line of the configuration equals the start marker
NoLiteralMatch == ~Contains(hist.config, params.search_start)

\* C12: "not found" never raises: when no line matches the search start, line
\* and block_lines extraction return the empty list and block extraction a
\* Block with no content and no end marker, and the configuration is as it was.
C12_NotFoundReturnsEmpty ==
    /\ (LineExtracted /\ NoRegexMatch)
          => /\ pc = "returned"
             /\ lines = <<>>
             /\ config_lines = hist.config
    /\ (hist.op = "extract_block" /\ NoLiteralMatch)
          => /\ pc = "returned"
             /\ block = [start |-> params.search_start, end |-> <<>>, content |-> <<>>]
             /\ config_lines = hist.config

C12_Witness ==
    /\ hist.op = "extract_block"
    /\ pc = "returned"
    /\ NoLiteralMatch
    /\ ~NoRegexMatch
    /\ Contains(hist.config, LineIndentedB)
    /\ Contains(hist.config, params.search_end)

----------------------------------------------------------------------------
(* Further claims about a run (Spec).                                      *)

\* the parameters validation rejects, by the rules of validate_input
InvalidInput(p) ==
    \/ p.source = ""
    \/ p.template = ""
    \/ p.compare_method = ""
    \/ p.search_mode = ""
    \/ Lower(p.compare_method) # COMPARE_METHOD_EQUALS
    \/ Lower(p.search_mode) \notin VALID_SEARCH_MODES
    \/ \E a \in p.compare_args : Lower(a) \notin VALID_COMPARE_ARGS
    \/ p.search_start = <<>> /\ Lower(p.search_mode) # SEARCH_MODE_GLOBAL

\* C13: a run with invalid parameters goes from its start to a failed result
\* and nowhere else: no file is read or written, no configuration is loaded,
\* no template rendered, nothing extracted or compared, and the result is the
\* initial one with failed set and a message.
C13_InvalidInputFailsUntouched ==
    InvalidInput(params)
        => /\ pc \in {"start", "failed"}
           /\ io = {}
           /\ config_lines = <<>>
           /\ template_content = <<>>
           /\ lines = <<>> /\ block = NoBlock
           /\ too_much = <<>> /\ missing = <<>>
           /\ hist = NoHist
           /\ pc = "failed"
                => /\ module_result.msg # ""
                   /\ module_result = FailResult(InitialResult, module_result.msg)

C13_Witness ==
    /\ pc = "failed"
    /\ InvalidInput(params)
    /\ params.source # "" /\ params.template # ""
    /\ params.search_mode = SEARCH_MODE_BLOCK
    /\ params.search_start = <<>>
    /\ params.file_output
    /\ io = {}

----------------------------------------------------------------------------
(* Claims about block extraction (SpecExtract).                            *)

\* the position (1-based) of the first line equal to the start marker
StartAt == IndexOf(hist.config, params.search_start)

\* a line that continues the block: indented, and not matching the end regex
ContinuesBlock(line) ==
    /\ WhitespaceStart(line)
    /\ ~(params.search_end # <<>> /\ StartsWith(line, params.search_end))

\* the position after the maximal run of continuing lines behind the start
StopAt ==
    CHOOSE j \in (StartAt + 1)..(Len(hist.config) + 1) :
        /\ \A k \in (StartAt + 1)..(j - 1) : ContinuesBlock(hist.config[k])
        /\ j <= Len(hist.config) => ~ContinuesBlock(hist.config[j])

EndRecorded == StopAt <= Len(hist.config) /\ hist.config[StopAt] = params.search_end

\* C14: block extraction with the start marker present returns for every
\* configuration: the content is the trimmed run of continuing lines behind
\* the start line, the end marker is set iff the stopping line exists and
\* equals the end token, and what remains is the configuration without the
\* start line, the content lines and the recorded end line.
C14_BlockExtractionSucceeds ==
    (hist.op = "extract_block" /\ ~NoLiteralMatch)
        => /\ pc = "returned"
           /\ block.start = params.search_start
           /\ block.content
                = [k \in 1..(StopAt - StartAt - 1) |-> Strip(hist.config[StartAt + k])]
           /\ block.end = IF EndRecorded THEN params.search_end ELSE <<>>
           /\ config_lines
                = Retain(hist.config,
                         StartAt..(StopAt - 1) \cup (IF EndRecorded THEN {StopAt} ELSE {}), 1)

----------------------------------------------------------------------------
(* Claims about global mode (Spec).                                        *)

\* occurrences of x among the trimmed lines of list
CountTrimmed(list, x) == Cardinality({i \in 1..Len(list) : Strip(list[i]) = x})

\* list[i] is the Rank-th occurrence of its line in list
Rank(list, i) == Cardinality({j \in 1..i : list[j] = list[i]})

\* the positions of the configuration whose trimmed line is in the template
InTemplate == {i \in 1..Len(hist.config) : Contains(hist.template, Strip(hist.config[i]))}

\* the positions of the template a copy in the configuration accounts for
Accounted ==
    {i \in 1..Len(hist.template) :
        Rank(hist.template, i)
            <= Min2(CountTrimmed(hist.config, hist.template[i]),
                    Count(hist.template, hist.template[i]))}

\* C15: global mode returns for every configuration and template: every
\* configuration line whose trimmed form is in the template is removed, the
\* others stay in order, and missing is the template without, for each line,
\* as many of its first occurrences as the configuration has copies.
C15_GlobalRemovesAllOccurrences ==
    hist.op = "global"
        => /\ pc \in {"compared", "done"}
           /\ config_lines = Retain(hist.config, InTemplate, 1)
           /\ missing = Retain(hist.template, Accounted, 1)

C15_Witness ==
    /\ hist.op = "global"
    /\ pc = "done"
    /\ \E i \in 1..Len(hist.template) :
          CountTrimmed(hist.config, hist.template[i])
              > Count(hist.template, hist.template[i])
    /\ missing # <<>>
    /\ config_lines # <<>>
    /\ module_result.expected = missing

----------------------------------------------------------------------------
(* Claims about the edit distance (SpecLev).                               *)

\* C16: levenshtein(s, t) is the classic edit distance of s and t, the least
\* number of single-character insertions, deletions and substitutions that
\* turn s into t, for every pair of strings, first characters included.
C16_ClassicEditDistance ==
    hist.op = "levenshtein"
        => hist.diff = EditDistance(lines[1], template_content[1])

----------------------------------------------------------------------------
(* Claims about the continuation of block_lines (SpecExtract).             *)

\* the positions (1-based) of the lines that match the start regex
Qualifying ==
    {i \in 1..Len(hist.config) : StartsWith(hist.config[i], params.search_start)}

QualifyingAt == CHOOSE i \in Qualifying : TRUE

\* the one qualifying line starts an indentation-based continuation
Continued ==
    /\ hist.op = "extract_block_lines"
    /\ Cardinality(Qualifying) = 1
    /\ ~EndsWith(Strip(hist.config[QualifyingAt]), <<"@">>)
    /\ QualifyingAt < Len(hist.config)
    /\ WhitespaceStart(hist.config[QualifyingAt + 1])

\* the position of the first line behind the qualifying one that does not
\* start with whitespace
FirstUnindented ==
    CHOOSE j \in (QualifyingAt + 1)..(Len(hist.config) + 1) :
        /\ \A k \in (QualifyingAt + 1)..(j - 1) : WhitespaceStart(hist.config[k])
        /\ j <= Len(hist.config) => ~WhitespaceStart(hist.config[j])

\* that line ends the continuation and belongs to it: "!..." or a blank line
Terminating ==
    /\ FirstUnindented <= Len(hist.config)
    /\ \/ StartsWith(hist.config[FirstUnindented], <<"!">>)
       \/ hist.config[FirstUnindented] = <<>>

PulledIn ==
    QualifyingAt..(FirstUnindented - 1) \cup (IF Terminating THEN {FirstUnindented} ELSE {})

\* C17: the continuation behind a qualifying line pulls in every following
\* line that starts with whitespace; the first line that does not is appended
\* and deleted as the terminating line if it starts with "!" or is blank, and
\* otherwise neither appended nor deleted.
C17_ContinuationTerminator ==
    Continued
        => /\ pc = "returned"
           /\ lines = [k \in 1..Cardinality(PulledIn) |->
                          Strip(hist.config[QualifyingAt + k - 1])]
           /\ config_lines = Retain(hist.config, PulledIn, 1)

----------------------------------------------------------------------------
(* Further claims about block comparison (SpecBlock).                      *)

\* the block's lines as block_check_equal compares them
ComparedBlockLines ==
    BlockGetContent(block, COMPARE_ARG_KEEP_START \in params.compare_args,
                    COMPARE_ARG_KEEP_END \in params.compare_args)

SameMultiset(list1, list2) ==
    \A i \in 1..Len(list1 \o list2) :
        Count(list1, (list1 \o list2)[i]) = Count(list2, (list1 \o list2)[i])

\* C18: block equality is sound: for a block with content and no ignore
\* patterns, both residues are empty only if the block's lines and the
\* template's lines are equal, as sequences under strict_order and as
\* multisets without it.
C18_ZeroDriftMeansEqual ==
    (/\ BlockChecked
     /\ pc = "returned"
     /\ block.content # <<>>
     /\ params.ignore_lines = <<>>
     /\ too_much = <<>>
     /\ missing = <<>>)
        => IF COMPARE_ARG_STRICT \in params.compare_args
           THEN ComparedBlockLines = hist.template
           ELSE SameMultiset(ComparedBlockLines, hist.template)

============================================================================
